---- MODULE Spec2Model ----
(***************************************************************************)
(* Model of the delete executor of the SQL connector                       *)
(* (sql-connector/src/transactional/database_writer/delete.rs):            *)
(*   execute         - top level delete of one record                      *)
(*   execute_nested  - delete of one record related to a parent            *)
(* Every transaction call of the two functions (a read or a delete         *)
(* statement) is one step; `log` keeps the calls of the running call in    *)
(* the order they were issued.                                              *)
(***************************************************************************)
EXTENDS Integers, Sequences, FiniteSets, TLC

VARIABLES
    db,       \* the stored rows as the transaction sees them
    db0,      \* the stored rows when the running call started
    pc,       \* position of the running call
    op,       \* "none", "execute" or "execute_nested"
    args,     \* the arguments of the running call
    record,   \* execute: `record`, the row located by find_record
    id,       \* execute: `id`; execute_nested: `child_id`
    probes,   \* number of required relations check_relation_violations has probed
    deletes,  \* number of delete statements of delete_many executed so far
    log,      \* transaction calls issued by the running call
    result,   \* what the call returned
    raced,    \* another writer's insert took effect during the running call
    gone,     \* finders whose row a committed execute has deleted
    find,     \* execute_nested: `find`, what find_id_by_parent returned
    ids       \* execute_nested: `ids`, the rows the connectivity read returned

vars == <<db, db0, pc, op, args, record, id, probes, deletes, log, result,
          raced, gone, find, ids>>

(***************************************************************************)
(* Bounds of the model: the keys of each table.                            *)
(***************************************************************************)
NumPosts == 2
NumComments == 2
NumLikes == 1
NumVotes == 1

(***************************************************************************)
(* Schema: Post 1 <- n Comment 1 <- n Like, Comment 1 <- n Vote.           *)
(* Comment.post, Like.comment and Vote.comment are required; Comment has   *)
(* one scalar list field (table Comment_tags).                             *)
(***************************************************************************)
Models == {"Post", "Comment", "Like", "Vote"}

Ids(model) ==
    CASE model = "Post" -> 1..NumPosts
      [] model = "Comment" -> 1..NumComments
      [] model = "Like" -> 1..NumLikes
      [] model = "Vote" -> 1..NumVotes
      [] OTHER -> {}

\* The relation fields a nested delete is run through: `model` owns the field,
\* `related_model` is the other side.
RelationFields ==
    { [name |-> "comments", model |-> "Post", related_model |-> "Comment",
       relation |-> "CommentToPost"] }

\* The relations of `model` whose opposite side is required, in schema order.
RequiredRelations(model) ==
    CASE model = "Post" -> << "CommentToPost" >>
      [] model = "Comment" -> << "LikeToComment", "VoteToComment" >>
      [] OTHER -> << >>

\* The model whose rows hold the reference of relation r.
DependentModel(r) ==
    CASE r = "CommentToPost" -> "Comment"
      [] r = "LikeToComment" -> "Like"
      [] OTHER -> "Vote"

\* The scalar list tables of a model.
ListTables(model) == IF model = "Comment" THEN << "Comment_tags" >> ELSE << >>

(***************************************************************************)
(* Stored rows.  db.rows[m][k] = 0: no row with key k; otherwise the row   *)
(* exists and the value is its required reference (1 for a Post, which has *)
(* none).  db.tags: the keys that have rows in Comment_tags.               *)
(***************************************************************************)
Exists(d, model, k) == k \in Ids(model) /\ d.rows[model][k] # 0

Present(d, model) == {k \in Ids(model) : d.rows[model][k] # 0}

\* Rows of the dependent model of relation r that reference key k.
Dependents(d, r, k) ==
    {j \in Present(d, DependentModel(r)) : d.rows[DependentModel(r)][j] = k}

\* Rows of the related model connected to parent key p through field rf.
Connected(d, rf, p) ==
    {c \in Present(d, rf.related_model) : d.rows[rf.related_model][c] = p}

MkDb(posts, comments, likes, tags) ==
    [rows |-> [m \in Models |->
                 CASE m = "Post" -> posts
                   [] m = "Comment" -> comments
                   [] m = "Like" -> likes
                   [] OTHER -> [v \in Ids("Vote") |-> 0]],
     tags |-> tags]

\* References point at existing rows, list rows belong to existing rows.
Integrity(d) ==
    /\ \A c \in Present(d, "Comment") : Exists(d, "Post", d.rows["Comment"][c])
    /\ \A l \in Present(d, "Like") : Exists(d, "Comment", d.rows["Like"][l])
    /\ \A v \in Present(d, "Vote") : Exists(d, "Comment", d.rows["Vote"][v])
    /\ d.tags \subseteq Present(d, "Comment")

(***************************************************************************)
(* Values.                                                                 *)
(***************************************************************************)
NoFinder == [model |-> "", id |-> 0]
NoRecord == [model |-> "", id |-> 0, ref |-> 0]
NoWhere == [model |-> "", id |-> 0]
NoError == [kind |-> "", relation_name |-> "", parent_name |-> "",
            parent_where |-> NoWhere, child_name |-> "", child_where |-> NoWhere]
NoField == [name |-> "", model |-> "", related_model |-> "", relation |-> ""]
NoArgs == [record_finder |-> NoFinder, parent_id |-> 0, actions |-> "",
           relation_field |-> NoField]
NoResult == [status |-> "none", record |-> NoRecord, error |-> NoError]

Ok(rec) == [status |-> "ok", record |-> rec, error |-> NoError]
Err(e) == [status |-> "err", record |-> NoRecord, error |-> e]

NotFound == [NoError EXCEPT !.kind = "NotFound"]
QueryError == [NoError EXCEPT !.kind = "QueryError"]
RelationViolation(r) ==
    [NoError EXCEPT !.kind = "RelationViolation", !.relation_name = r]

\* RecordFinderInfo::for_id(model, id)
ForId(model, k) == [model |-> model, id |-> k]

Call(name, target, k, ok) == [call |-> name, target |-> target, id |-> k, ok |-> ok]


(***************************************************************************)
(* Collaborators of delete.rs: the reads of transaction_ext, the checks of *)
(* DeleteActions and NestedActions, the statements of WriteQueryBuilder.   *)
(***************************************************************************)
Min(S) == CHOOSE x \in S : \A y \in S : x <= y

\* transaction_ext::find_record: the row the finder matches, or NotFound.
find_record(d, finder) ==
    IF Exists(d, finder.model, finder.id)
    THEN Ok([model |-> finder.model, id |-> finder.id,
             ref |-> d.rows[finder.model][finder.id]])
    ELSE Err(NotFound)

\* transaction_ext::find_id: the key the finder matches, or NotFound.
find_id(d, finder) ==
    IF Exists(d, finder.model, finder.id)
    THEN Ok([NoRecord EXCEPT !.model = finder.model, !.id = finder.id])
    ELSE Err(NotFound)

\* The rows find_id_by_parent selects from: connected to the parent and, with
\* a finder, matching it.
ChildCandidates(d, relation_field, parent_id, record_finder) ==
    {c \in Connected(d, relation_field, parent_id) :
        record_finder = NoFinder \/ c = record_finder.id}

\* transaction_ext::find_id_by_parent: the first row connected to the parent
\* (and matching the finder), or RecordsNotConnected without parent_where.
find_id_by_parent(d, relation_field, parent_id, record_finder) ==
    LET rows == ChildCandidates(d, relation_field, parent_id, record_finder)
    IN  IF rows # {}
        THEN Ok([NoRecord EXCEPT !.model = relation_field.related_model,
                                 !.id = Min(rows)])
        ELSE Err([kind |-> "RecordsNotConnected",
                  relation_name |-> relation_field.relation,
                  parent_name |-> relation_field.model,
                  parent_where |-> NoWhere,
                  child_name |-> relation_field.related_model,
                  child_where |-> record_finder])

\* NestedActions: the check functions a capability may supply.  "strict"
\* succeeds exactly when the connectivity read returned a row, "inverted"
\* exactly when it returned none.
NestedActionsKinds == {"strict", "inverted"}

\* NestedActions::ensure_connected, the read: rows linking parent and child.
ensure_connected_select(d, relation_field, parent_id, child_id) ==
    {c \in Connected(d, relation_field, parent_id) : c = child_id}

\* NestedActions::ensure_connected, the check function applied to `connected`.
ensure_connected_check(actions, relation_field, connected) ==
    IF (actions = "strict") = connected
    THEN Ok(NoRecord)
    ELSE Err([kind |-> "RecordsNotConnected",
              relation_name |-> relation_field.relation,
              parent_name |-> relation_field.model,
              parent_where |-> NoWhere,
              child_name |-> relation_field.related_model,
              child_where |-> NoWhere])

\* WriteQueryBuilder::delete_many for one key: the rows of the scalar list
\* tables first, the row itself last.
delete_many(model, k) ==
    [i \in 1..Len(ListTables(model)) |->
        [table |-> ListTables(model)[i], id |-> k]]
    \o << [table |-> model, id |-> k] >>

\* Transaction::delete: the stored rows after a delete statement.
ApplyDelete(d, stmt) ==
    IF stmt.table \in Models
    THEN [d EXCEPT !.rows[stmt.table][stmt.id] = 0]
    ELSE [d EXCEPT !.tags = @ \ {stmt.id}]

(***************************************************************************)
(* Steps shared by the two functions.                                      *)
(***************************************************************************)
Return(res) ==
    /\ pc' = "done"
    /\ result' = res

\* A transaction call failed in the transaction or statement layer: `?`
\* returns the failure.
CallFails(name, target, k) ==
    /\ log' = Append(log, Call(name, target, k, FALSE))
    /\ Return(Err(QueryError))
    /\ UNCHANGED <<db, db0, op, args, record, id, probes, deletes, raced, gone, find, ids>>

\* DeleteActions::check_relation_violations with the closure of delete.rs:
\* one probe read per required relation, the first row found is a violation.
CheckRelationViolations(model) ==
    LET relations == RequiredRelations(model)
    IN  IF probes >= Len(relations)
        THEN /\ pc' = "delete"
             /\ UNCHANGED <<db, db0, op, args, record, id, probes, deletes, log,
                            result, raced, gone, find, ids>>
        ELSE /\ log' = Append(log, Call("select_ids", relations[probes + 1], id, TRUE))
             /\ IF Dependents(db, relations[probes + 1], id) # {}
                THEN /\ Return(Err(RelationViolation(relations[probes + 1])))
                     /\ UNCHANGED probes
                ELSE /\ probes' = probes + 1
                     /\ UNCHANGED <<pc, result>>
             /\ UNCHANGED <<db, db0, op, args, record, id, deletes, raced, gone, find, ids>>

\* The probe read of the closure fails: `?` inside the closure returns it.
ProbeFails(model) ==
    /\ probes < Len(RequiredRelations(model))
    /\ CallFails("select_ids", RequiredRelations(model)[probes + 1], id)

\* for delete in stmts { conn.delete(delete)?; } and the return after the loop
DeleteStatements(stmts, res) ==
    IF deletes >= Len(stmts)
    THEN /\ Return(res)
         /\ UNCHANGED <<db, db0, op, args, record, id, probes, deletes, log,
                        raced, gone, find, ids>>
    ELSE /\ db' = ApplyDelete(db, stmts[deletes + 1])
         /\ log' = Append(log, Call("delete", stmts[deletes + 1].table,
                                    stmts[deletes + 1].id, TRUE))
         /\ deletes' = deletes + 1
         /\ UNCHANGED <<db0, pc, op, args, record, id, probes, result, raced, gone, find, ids>>

DeleteFails(stmts) ==
    /\ deletes < Len(stmts)
    /\ CallFails("delete", stmts[deletes + 1].table, stmts[deletes + 1].id)

(***************************************************************************)
(* execute(conn, record_finder)                                            *)
(***************************************************************************)
Execute(record_finder) ==
    /\ pc = "idle"
    /\ pc' = "find_record"
    /\ op' = "execute"
    /\ args' = [NoArgs EXCEPT !.record_finder = record_finder]
    /\ db0' = db
    /\ UNCHANGED <<db, record, id, probes, deletes, log, result, raced, gone, find, ids>>

ExecuteFindRecord ==
    /\ pc = "find_record" /\ op = "execute"
    /\ LET model == args.record_finder.model
           found == find_record(db, args.record_finder)
       IN  /\ log' = Append(log, Call("find_record", model, args.record_finder.id, TRUE))
           /\ IF found.status = "ok"
              THEN /\ record' = found.record
                   /\ id' = found.record.id
                   /\ pc' = "check_relation_violations"
                   /\ UNCHANGED result
              ELSE /\ Return(found)
                   /\ UNCHANGED <<record, id>>
    /\ UNCHANGED <<db, db0, op, args, probes, deletes, raced, gone, find, ids>>

ExecuteFindRecordFails ==
    /\ pc = "find_record" /\ op = "execute"
    /\ CallFails("find_record", args.record_finder.model, args.record_finder.id)

\* Mutant: every required relation is probed before a violation is reported.
ExecuteCheckRelationViolations_ProbesAll ==
    /\ pc = "check_relation_violations" /\ op = "execute"
    /\ LET relations == RequiredRelations(args.record_finder.model)
           violated == {i \in 1..Len(relations) : Dependents(db, relations[i], id) # {}}
       IN  IF probes >= Len(relations)
           THEN /\ IF violated # {}
                   THEN Return(Err(RelationViolation(relations[Min(violated)])))
                   ELSE pc' = "delete" /\ UNCHANGED result
                /\ UNCHANGED <<probes, log>>
           ELSE /\ log' = Append(log, Call("select_ids", relations[probes + 1], id, TRUE))
                /\ probes' = probes + 1
                /\ UNCHANGED <<pc, result>>
    /\ UNCHANGED <<db, db0, op, args, record, id, deletes, raced, gone, find, ids>>

\* Mutant: the outcome of check_relation_violations is dropped (no `?`).
ExecuteCheckRelationViolations_Unchecked ==
    /\ pc = "check_relation_violations" /\ op = "execute"
    /\ pc' = "delete"
    /\ UNCHANGED <<db, db0, op, args, record, id, probes, deletes, log, result,
                   raced, gone, find, ids>>

ExecuteCheckRelationViolations ==
    /\ pc = "check_relation_violations" /\ op = "execute"
    /\ CheckRelationViolations(args.record_finder.model)

ExecuteProbeFails ==
    /\ pc = "check_relation_violations" /\ op = "execute"
    /\ ProbeFails(args.record_finder.model)

\* Mutant: the delete statements are executed last to first.
ExecuteDelete_Reversed ==
    /\ pc = "delete" /\ op = "execute"
    /\ LET stmts == delete_many(args.record_finder.model, id)
       IN  DeleteStatements([i \in 1..Len(stmts) |-> stmts[Len(stmts) + 1 - i]],
                            Ok(record))

\* Mutant: the delete statements are built and never executed.
ExecuteDelete_NoStatements ==
    /\ pc = "delete" /\ op = "execute"
    /\ DeleteStatements(<< >>, Ok(record))

\* Mutant: the result is read again after the delete statements.
ExecuteDelete_Reread ==
    /\ pc = "delete" /\ op = "execute"
    /\ DeleteStatements(delete_many(args.record_finder.model, id),
                        find_record(db, args.record_finder))

ExecuteDelete ==
    /\ pc = "delete" /\ op = "execute"
    /\ DeleteStatements(delete_many(args.record_finder.model, id), Ok(record))

\* Mutant: a failed conn.delete is not returned, the statement is issued again.
ExecuteDeleteFails_Retried ==
    /\ pc = "delete" /\ op = "execute"
    /\ deletes < Len(delete_many(args.record_finder.model, id))
    /\ log[Len(log)].ok
    /\ log' = Append(log, Call("delete",
                   delete_many(args.record_finder.model, id)[deletes + 1].table, id, FALSE))
    /\ UNCHANGED <<db, db0, pc, op, args, record, id, probes, deletes, result, raced,
                   gone, find, ids>>

\* Mutant: the failure of conn.delete is dropped (no `?`), the loop goes on.
ExecuteDeleteFails_Swallowed ==
    /\ pc = "delete" /\ op = "execute"
    /\ deletes < Len(delete_many(args.record_finder.model, id))
    /\ log' = Append(log, Call("delete",
                   delete_many(args.record_finder.model, id)[deletes + 1].table, id, FALSE))
    /\ deletes' = deletes + 1
    /\ UNCHANGED <<db, db0, pc, op, args, record, id, probes, result, raced, gone, find, ids>>

ExecuteDeleteFails ==
    /\ pc = "delete" /\ op = "execute"
    /\ DeleteFails(delete_many(args.record_finder.model, id))

(***************************************************************************)
(* execute_nested(conn, parent_id, actions, record_finder, relation_field) *)
(***************************************************************************)
\* Mutant: the existence pre-check of the finder is left out.
ExecuteNested_NoPrecheck(parent_id, actions, record_finder, relation_field) ==
    /\ pc = "idle"
    /\ pc' = "find_id_by_parent"
    /\ op' = "execute_nested"
    /\ args' = [record_finder |-> record_finder, parent_id |-> parent_id,
                actions |-> actions, relation_field |-> relation_field]
    /\ db0' = db
    /\ UNCHANGED <<db, record, id, probes, deletes, log, result, raced, gone, find, ids>>

ExecuteNested(parent_id, actions, record_finder, relation_field) ==
    /\ pc = "idle"
    /\ pc' = IF record_finder # NoFinder THEN "find_id" ELSE "find_id_by_parent"
    /\ op' = "execute_nested"
    /\ args' = [record_finder |-> record_finder, parent_id |-> parent_id,
                actions |-> actions, relation_field |-> relation_field]
    /\ db0' = db
    /\ UNCHANGED <<db, record, id, probes, deletes, log, result, raced, gone, find, ids>>

\* Mutant: the outcome of the find_id pre-check is dropped (no `?`).
ExecuteNestedFindId_Unchecked ==
    /\ pc = "find_id" /\ op = "execute_nested"
    /\ log' = Append(log, Call("find_id", args.record_finder.model,
                               args.record_finder.id, TRUE))
    /\ pc' = "find_id_by_parent"
    /\ UNCHANGED <<db, db0, op, args, record, id, probes, deletes, result, raced, gone, find, ids>>

ExecuteNestedFindId ==
    /\ pc = "find_id" /\ op = "execute_nested"
    /\ LET found == find_id(db, args.record_finder)
       IN  /\ log' = Append(log, Call("find_id", args.record_finder.model,
                                       args.record_finder.id, TRUE))
           /\ IF found.status = "ok"
              THEN /\ pc' = "find_id_by_parent"
                   /\ UNCHANGED result
              ELSE Return(found)
    /\ UNCHANGED <<db, db0, op, args, record, id, probes, deletes, raced, gone, find, ids>>

ExecuteNestedFindIdFails ==
    /\ pc = "find_id" /\ op = "execute_nested"
    /\ CallFails("find_id", args.record_finder.model, args.record_finder.id)

\* Mutant: the error of find_id_by_parent is returned as it came.
MapErr_Unenriched(e, relation_field, parent_id) == e

\* Mutant: every error of the lookup gets the parent's locator.
MapErr_EveryKind(e, relation_field, parent_id) ==
    [e EXCEPT !.parent_where = ForId(relation_field.model, parent_id)]

\* Mutant: a parent locator the error already carries is kept.
MapErr_KeepsLocator(e, relation_field, parent_id) ==
    IF e.kind = "RecordsNotConnected" /\ e.parent_where = NoWhere
    THEN [e EXCEPT !.parent_where = ForId(relation_field.model, parent_id)]
    ELSE e

\* Mutant: the error is built anew, without the child's locator.
MapErr_Rebuilt(e, relation_field, parent_id) ==
    IF e.kind = "RecordsNotConnected"
    THEN [e EXCEPT !.parent_where = ForId(relation_field.model, parent_id),
                   !.child_where = NoWhere]
    ELSE e

\* find.map_err(..): RecordsNotConnected gets the parent's locator.
MapErr(e, relation_field, parent_id) ==
    IF e.kind = "RecordsNotConnected"
    THEN [e EXCEPT !.parent_where = ForId(relation_field.model, parent_id)]
    ELSE e

\* let child_id = find.map_err(..)?: the lookup returned `found`.
BindChildId(found) ==
    /\ log' = Append(log, Call("find_id_by_parent", args.relation_field.relation,
                                args.parent_id, TRUE))
    /\ find' = found
    /\ IF found.status = "ok"
       THEN /\ id' = found.record.id
            /\ pc' = "ensure_connected"
            /\ UNCHANGED result
       ELSE /\ Return(Err(MapErr(found.error, args.relation_field, args.parent_id)))
            /\ UNCHANGED id
    /\ UNCHANGED <<db, db0, op, args, record, probes, deletes, raced, gone, ids>>

\* Mutant: the lookup is not scoped to the parent, it takes the first row of
\* the table (or the finder's row).
ExecuteNestedFindIdByParent_FirstOfTable ==
    /\ pc = "find_id_by_parent" /\ op = "execute_nested"
    /\ LET model == args.relation_field.related_model
           rows == {c \in Present(db, model) :
                       args.record_finder = NoFinder \/ c = args.record_finder.id}
       IN  BindChildId(IF rows # {}
                       THEN Ok([NoRecord EXCEPT !.model = model, !.id = Min(rows)])
                       ELSE Err(NotFound))

ExecuteNestedFindIdByParent ==
    /\ pc = "find_id_by_parent" /\ op = "execute_nested"
    /\ BindChildId(find_id_by_parent(db, args.relation_field, args.parent_id,
                                     args.record_finder))

ExecuteNestedFindIdByParentFails ==
    /\ pc = "find_id_by_parent" /\ op = "execute_nested"
    /\ log' = Append(log, Call("find_id_by_parent", args.relation_field.relation,
                                args.parent_id, FALSE))
    /\ find' = Err(QueryError)
    /\ Return(Err(MapErr(QueryError, args.relation_field, args.parent_id)))
    /\ UNCHANGED <<db, db0, op, args, record, id, probes, deletes, raced, gone, ids>>

\* Mutant: the check function is given is_none() of the read's first row.
CheckConnected_IsNone(rows) ==
    LET checked == ensure_connected_check(args.actions, args.relation_field, rows = {})
    IN  /\ log' = Append(log, Call("select_ids", "ensure_connected", id, TRUE))
        /\ ids' = rows
        /\ IF checked.status = "ok"
           THEN /\ pc' = "check_relation_violations"
                /\ UNCHANGED result
           ELSE Return(checked)
        /\ UNCHANGED <<db, db0, op, args, record, id, probes, deletes, raced, gone, find>>

\* let ids = select_ids(conn, select)?; check(ids.into_iter().next().is_some())?
\* where the connectivity read returned `rows`.
CheckConnected(rows) ==
    LET checked == ensure_connected_check(args.actions, args.relation_field, rows # {})
    IN  /\ log' = Append(log, Call("select_ids", "ensure_connected", id, TRUE))
        /\ ids' = rows
        /\ IF checked.status = "ok"
           THEN /\ pc' = "check_relation_violations"
                /\ UNCHANGED result
           ELSE Return(checked)
        /\ UNCHANGED <<db, db0, op, args, record, id, probes, deletes, raced, gone, find>>

\* Mutant: the outcome of the check function is dropped (no `?`).
ExecuteNestedEnsureConnected_Unchecked ==
    /\ pc = "ensure_connected" /\ op = "execute_nested"
    /\ log' = Append(log, Call("select_ids", "ensure_connected", id, TRUE))
    /\ ids' = ensure_connected_select(db, args.relation_field, args.parent_id, id)
    /\ pc' = "check_relation_violations"
    /\ UNCHANGED <<db, db0, op, args, record, id, probes, deletes, result, raced,
                   gone, find>>

ExecuteNestedEnsureConnected ==
    /\ pc = "ensure_connected" /\ op = "execute_nested"
    /\ CheckConnected(ensure_connected_select(db, args.relation_field, args.parent_id, id))

ExecuteNestedEnsureConnectedFails ==
    /\ pc = "ensure_connected" /\ op = "execute_nested"
    /\ CallFails("select_ids", "ensure_connected", id)

\* Mutant: the violations are checked on the relation field's own model.
ExecuteNestedCheckRelationViolations_ParentModel ==
    /\ pc = "check_relation_violations" /\ op = "execute_nested"
    /\ CheckRelationViolations(args.relation_field.model)

ExecuteNestedCheckRelationViolations ==
    /\ pc = "check_relation_violations" /\ op = "execute_nested"
    /\ CheckRelationViolations(args.relation_field.related_model)

ExecuteNestedProbeFails ==
    /\ pc = "check_relation_violations" /\ op = "execute_nested"
    /\ ProbeFails(args.relation_field.related_model)

\* Mutant: the delete statements are built for the parent row.
ExecuteNestedDelete_ParentRow ==
    /\ pc = "delete" /\ op = "execute_nested"
    /\ DeleteStatements(delete_many(args.relation_field.model, args.parent_id),
                        Ok(NoRecord))

\* Mutant: the delete statements are built for the parent's key.
ExecuteNestedDelete_ParentKey ==
    /\ pc = "delete" /\ op = "execute_nested"
    /\ DeleteStatements(delete_many(args.relation_field.related_model, args.parent_id),
                        Ok(NoRecord))

\* Mutant: the delete statements are built for the relation field's own model.
ExecuteNestedDelete_ParentModel ==
    /\ pc = "delete" /\ op = "execute_nested"
    /\ DeleteStatements(delete_many(args.relation_field.model, id), Ok(NoRecord))

ExecuteNestedDelete ==
    /\ pc = "delete" /\ op = "execute_nested"
    /\ DeleteStatements(delete_many(args.relation_field.related_model, id), Ok(NoRecord))

ExecuteNestedDeleteFails ==
    /\ pc = "delete" /\ op = "execute_nested"
    /\ DeleteFails(delete_many(args.relation_field.related_model, id))

(***************************************************************************)
(* The caller owns the transaction: it commits a successful call and rolls *)
(* a failed one back.                                                      *)
(***************************************************************************)
EndTransaction ==
    /\ pc = "done"
    /\ db' = IF result.status = "ok" THEN db ELSE db0
    /\ db0' = db'
    /\ pc' = "idle"
    /\ op' = "none"
    /\ args' = NoArgs
    /\ record' = NoRecord
    /\ id' = 0
    /\ probes' = 0
    /\ deletes' = 0
    /\ log' = << >>
    /\ result' = NoResult
    /\ raced' = FALSE
    /\ find' = NoResult
    /\ ids' = {}

Finish ==
    /\ EndTransaction
    /\ UNCHANGED gone

\* The same, remembering the finders whose row a committed execute deleted.
FinishTracked ==
    /\ EndTransaction
    /\ gone' = IF op = "execute" /\ result.status = "ok"
               THEN gone \cup {args.record_finder}
               ELSE gone

(***************************************************************************)
(* Another transaction.  The delete executor takes no lock; under          *)
(* read-committed isolation another writer can insert and commit a row     *)
(* that references the candidate key after the call's probes and before    *)
(* its last delete statement.                                              *)
(***************************************************************************)
TargetModel ==
    IF op = "execute" THEN args.record_finder.model
    ELSE args.relation_field.related_model

Range(seq) == {seq[i] : i \in 1..Len(seq)}

InsertRow(d, model, k, ref) == [d EXCEPT !.rows[model][k] = ref]

\* The relations the other writer adds rows to: it comments and likes.
WriterRelations == {"CommentToPost", "LikeToComment"}

OtherWriterInsert ==
    /\ pc = "delete"
    /\ deletes < Len(delete_many(TargetModel, id))
    /\ ~raced
    /\ \E r \in Range(RequiredRelations(TargetModel)) \cap WriterRelations :
       \E j \in Ids(DependentModel(r)) \ Present(db, DependentModel(r)) :
          /\ db' = InsertRow(db, DependentModel(r), j, id)
          /\ db0' = InsertRow(db0, DependentModel(r), j, id)
    /\ raced' = TRUE
    /\ UNCHANGED <<pc, op, args, record, id, probes, deletes, log, result, gone,
                   find, ids>>

(***************************************************************************)
(* Specifications.                                                         *)
(***************************************************************************)
Finders == UNION {{[model |-> m, id |-> k] : k \in Ids(m)} : m \in Models}

FindersOf(model) == {f \in Finders : f.model = model}

\* Every consistent choice of Post, Comment, Like and Comment_tags rows; the
\* Vote table starts empty here (PopulatedDb below has Vote rows).
Init ==
    /\ \E posts \in [Ids("Post") -> {0, 1}] :
       \E comments \in [Ids("Comment") -> {0} \cup {p \in Ids("Post") : posts[p] # 0}] :
       \E likes \in [Ids("Like") -> {0} \cup {c \in Ids("Comment") : comments[c] # 0}] :
       \E tags \in SUBSET {c \in Ids("Comment") : comments[c] # 0} :
          db = MkDb(posts, comments, likes, tags)
    /\ db0 = db
    /\ pc = "idle"
    /\ op = "none"
    /\ args = NoArgs
    /\ record = NoRecord
    /\ id = 0
    /\ probes = 0
    /\ deletes = 0
    /\ log = << >>
    /\ result = NoResult
    /\ raced = FALSE
    /\ gone = {}
    /\ find = NoResult
    /\ ids = {}

ExecuteSteps ==
    \/ \E record_finder \in Finders : Execute(record_finder)
    \/ ExecuteFindRecord
    \/ ExecuteFindRecordFails
    \/ ExecuteCheckRelationViolations
    \/ ExecuteProbeFails
    \/ ExecuteDelete
    \/ ExecuteDeleteFails

ExecuteNestedSteps ==
    \/ \E relation_field \in RelationFields :
       \E parent_id \in Ids(relation_field.model) :
       \E actions \in NestedActionsKinds :
       \E record_finder \in FindersOf(relation_field.related_model) \cup {NoFinder} :
          ExecuteNested(parent_id, actions, record_finder, relation_field)
    \/ ExecuteNestedFindId
    \/ ExecuteNestedFindIdFails
    \/ ExecuteNestedFindIdByParent
    \/ ExecuteNestedFindIdByParentFails
    \/ ExecuteNestedEnsureConnected
    \/ ExecuteNestedEnsureConnectedFails
    \/ ExecuteNestedCheckRelationViolations
    \/ ExecuteNestedProbeFails
    \/ ExecuteNestedDelete
    \/ ExecuteNestedDeleteFails

\* One call at a time, alone on the database.
Next ==
    \/ ExecuteSteps
    \/ ExecuteNestedSteps
    \/ Finish

Spec == Init /\ [][Next]_vars

\* The same with another writer committing inserts while a call runs.
NextRC ==
    \/ ExecuteSteps
    \/ ExecuteNestedSteps
    \/ Finish
    \/ OtherWriterInsert

SpecRC == Init /\ [][NextRC]_vars

\* Repeated execute calls.
NextRepeat ==
    \/ ExecuteSteps
    \/ FinishTracked

SpecRepeat == Init /\ [][NextRepeat]_vars

(***************************************************************************)
(* The calls with execute_nested's collaborators held to their types only:  *)
(* find_id_by_parent returns any key of the related model or any error,    *)
(* with or without a parent locator; the connectivity read returns a row   *)
(* or none (the child can be disconnected by another transaction between   *)
(* the lookup and the read).  The rows that link the two sides of a        *)
(* relation are then read by the collaborators alone, so the relation      *)
(* fields can include a self-relation, Comment.replies, whose linking rows *)
(* are not kept in db.                                                     *)
(***************************************************************************)
\* A relation field whose model and related model are the same.
SelfRelationFields ==
    { [name |-> "replies", model |-> "Comment", related_model |-> "Comment",
       relation |-> "CommentToComment"] }

\* Every row present: Comment k belongs to Post k, Like k and Vote k to
\* Comment k (modulo the number of keys).
PopulatedDb ==
    [rows |-> [m \in Models |->
                 [k \in Ids(m) |->
                    CASE m = "Post" -> 1
                      [] m = "Comment" -> ((k - 1) % NumPosts) + 1
                      [] OTHER -> ((k - 1) % NumComments) + 1]],
     tags |-> Ids("Comment")]

InitPopulated ==
    /\ db = PopulatedDb
    /\ db0 = db
    /\ pc = "idle"
    /\ op = "none"
    /\ args = NoArgs
    /\ record = NoRecord
    /\ id = 0
    /\ probes = 0
    /\ deletes = 0
    /\ log = << >>
    /\ result = NoResult
    /\ raced = FALSE
    /\ gone = {}
    /\ find = NoResult
    /\ ids = {}

\* SqlError::RecordsNotConnected as a lookup may produce it for the field.
NotConnectedErrors(relation_field, record_finder) ==
    {[kind |-> "RecordsNotConnected",
      relation_name |-> relation_field.relation,
      parent_name |-> names[1],
      parent_where |-> parent_where,
      child_name |-> names[2],
      child_where |-> child_where] :
        names \in {<<relation_field.model, relation_field.related_model>>,
                   <<relation_field.related_model, relation_field.model>>},
        parent_where \in {NoWhere} \cup
                         {ForId(relation_field.model, p) : p \in Ids(relation_field.model)},
        child_where \in {NoWhere, record_finder}}

\* crate::Result<GraphqlId>: what find_id_by_parent can return when it returns.
LookupResults(relation_field, record_finder) ==
    {Ok([NoRecord EXCEPT !.model = relation_field.related_model, !.id = k]) :
        k \in Ids(relation_field.related_model)}
    \cup {Err(e) : e \in {NotFound, RelationViolation(relation_field.relation)}
                         \cup NotConnectedErrors(relation_field, record_finder)}

ExecuteNestedFindIdByParentAny ==
    /\ pc = "find_id_by_parent" /\ op = "execute_nested"
    /\ \E found \in LookupResults(args.relation_field, args.record_finder) :
          BindChildId(found)

ExecuteNestedEnsureConnectedAny ==
    /\ pc = "ensure_connected" /\ op = "execute_nested"
    /\ \E rows \in SUBSET {id} : CheckConnected(rows)

NextOpen ==
    \/ ExecuteSteps
    \/ \E relation_field \in RelationFields \cup SelfRelationFields :
       \E parent_id \in Ids(relation_field.model) :
       \E actions \in NestedActionsKinds :
       \E record_finder \in FindersOf(relation_field.related_model) \cup {NoFinder} :
          ExecuteNested(parent_id, actions, record_finder, relation_field)
    \/ ExecuteNestedFindId
    \/ ExecuteNestedFindIdFails
    \/ ExecuteNestedFindIdByParentAny
    \/ ExecuteNestedFindIdByParentFails
    \/ ExecuteNestedEnsureConnectedAny
    \/ ExecuteNestedEnsureConnectedFails
    \/ ExecuteNestedCheckRelationViolations
    \/ ExecuteNestedProbeFails
    \/ ExecuteNestedDelete
    \/ ExecuteNestedDeleteFails
    \/ Finish

SpecOpen == InitPopulated /\ [][NextOpen]_vars

\* The calls of Next on the stored rows with every row present, so that a
\* Comment can be referenced through both of its required relations.
SpecPopulated == InitPopulated /\ [][Next]_vars

\* The steps of a running call: each is a transaction call that returned,
\* with success or with a failure, or the return after the last statement.
CallSteps ==
    \/ ExecuteFindRecord
    \/ ExecuteFindRecordFails
    \/ ExecuteCheckRelationViolations
    \/ ExecuteProbeFails
    \/ ExecuteDelete
    \/ ExecuteDeleteFails
    \/ ExecuteNestedFindId
    \/ ExecuteNestedFindIdFails
    \/ ExecuteNestedFindIdByParent
    \/ ExecuteNestedFindIdByParentFails
    \/ ExecuteNestedEnsureConnected
    \/ ExecuteNestedEnsureConnectedFails
    \/ ExecuteNestedCheckRelationViolations
    \/ ExecuteNestedProbeFails
    \/ ExecuteNestedDelete
    \/ ExecuteNestedDeleteFails

\* Every transaction call of a running call returns.
SpecFair == InitPopulated /\ [][Next]_vars /\ WF_vars(CallSteps)

(***************************************************************************)
(* Properties.                                                             *)
(***************************************************************************)
Kind == result.error.kind

Done == pc = "done"

NoDeleteIssued == \A i \in 1..Len(log) : log[i].call # "delete"

\* Some required relation of `model` has a row that references key k.
HasDependents(d, model, k) ==
    \E r \in Range(RequiredRelations(model)) : Dependents(d, r, k) # {}

FinderGiven == args.record_finder # NoFinder

FinderMatches(d) == Exists(d, args.record_finder.model, args.record_finder.id)

\* C1: in execute and in execute_nested, once the candidate key is located
\* and a row references it through a required relation, no delete statement
\* is ever issued and the call ends with RelationViolation on one of the
\* model's required relations; the only other endings are a read that failed
\* in the transaction and, in execute_nested, the refusal of the
\* capability's own connectivity check, both of which precede the probe.
C1_ViolationBeforeWrite ==
    (op # "none" /\ id # 0 /\ HasDependents(db0, TargetModel, id)) =>
        /\ NoDeleteIssued
        /\ Done =>
            /\ result.status = "err"
            /\ \/ /\ Kind = "RelationViolation"
                  /\ result.error.relation_name \in Range(RequiredRelations(TargetModel))
               \/ Kind = "QueryError"
               \/ /\ op = "execute_nested"
                  /\ Kind = "RecordsNotConnected"
                  /\ ensure_connected_check(args.actions, args.relation_field,
                                            TRUE).status = "err"

C1_Witness ==
    /\ Done /\ op = "execute_nested"
    /\ HasDependents(db0, TargetModel, id)
    /\ Kind = "RelationViolation"
    /\ NoDeleteIssued
    /\ db = db0

\* C2: when the finder given to execute, or given explicitly to
\* execute_nested, matches no row, the locator read is the only transaction
\* call, no delete statement is issued, and the call returns NotFound (or
\* the failure of that read, when the read itself failed).
C2_NotFound ==
    (op # "none" /\ FinderGiven /\ ~FinderMatches(db0)) =>
        /\ NoDeleteIssued
        /\ Len(log) <= 1
        /\ db = db0
        /\ Done =>
            /\ result.status = "err"
            /\ Len(log) = 1
            /\ Kind = IF log[1].ok THEN "NotFound" ELSE "QueryError"

C2_Witness ==
    /\ Done /\ op = "execute_nested"
    /\ FinderGiven /\ ~FinderMatches(db0)
    /\ Kind = "NotFound"
    /\ log = << Call("find_id", args.record_finder.model, args.record_finder.id, TRUE) >>

\* No row connects the parent to the child the call designates: the finder's
\* row, or with no finder any row of the related model.
NoConnectingRow ==
    IF FinderGiven
    THEN args.record_finder.id \notin Connected(db0, args.relation_field, args.parent_id)
    ELSE Connected(db0, args.relation_field, args.parent_id) = {}

NoReadAfterDelete ==
    \A i, j \in 1..Len(log) : (i < j /\ log[i].call = "delete") => log[j].call = "delete"

\* The row the finder matches among the rows d.
RowOf(d, finder) ==
    [model |-> finder.model, id |-> finder.id, ref |-> d.rows[finder.model][finder.id]]

\* C4: a successful execute returns the row as it was stored before the
\* call's delete statements ran, the row is gone from the stored rows when it
\* returns, and no read follows a delete statement; an execute that deleted
\* the row returns that snapshot.
C4_Snapshot ==
    /\ (op = "execute" /\ Done /\ result.status = "ok") =>
          /\ FinderMatches(db0)
          /\ ~FinderMatches(db)
          /\ result.record = RowOf(db0, args.record_finder)
          /\ log[Len(log)].call = "delete"
    /\ (op = "execute" /\ Done /\ FinderMatches(db0) /\ ~FinderMatches(db)) =>
          result = Ok(RowOf(db0, args.record_finder))
    /\ op = "execute" => NoReadAfterDelete

C4_Witness ==
    /\ Done /\ op = "execute"
    /\ result.status = "ok"
    /\ result.record = RowOf(db0, args.record_finder)
    /\ result.record.ref # 0
    /\ ~FinderMatches(db)

\* The delete statements the running call executes for its key.
Statements == delete_many(TargetModel, id)

\* The delete entries of the log, in order.
DeleteEntries == SelectSeq(log, LAMBDA e : e.call = "delete")

\* C5 as stated: a call that returns an error has executed none of the
\* delete statements.
C5_NoDeleteExecutedOnError ==
    (Done /\ result.status = "err") =>
        \A i \in 1..Len(log) : log[i].call = "delete" => ~log[i].ok

\* What C5, amended, says of every state (the rollback is stated below).
C5_StateInv ==
    /\ \A i \in 1..Len(log) :
          ~log[i].ok => /\ i = Len(log)
                        /\ Done
                        /\ result = Err(QueryError)
    /\ (Done /\ result.status = "err" /\ log[Len(log)].call # "delete") =>
          /\ NoDeleteIssued
          /\ db = db0
    /\ (Done /\ result.status = "err" /\ log[Len(log)].call = "delete") =>
          /\ ~log[Len(log)].ok
          /\ deletes < Len(Statements)
          /\ Len(DeleteEntries) = deletes + 1
          /\ \A i \in 1..Len(DeleteEntries) :
                /\ DeleteEntries[i].target = Statements[i].table
                /\ DeleteEntries[i].id = Statements[i].id
                /\ DeleteEntries[i].ok = (i <= deletes)

\* C5, amended: a failed transaction call is the last call of the run and
\* the run returns its failure, never success; a call that fails in the
\* locator, the connectivity check or the probe has executed no delete
\* statement; a call that fails in a delete statement has executed exactly
\* the statements that precede it in the builder's order and none after it;
\* and when the caller rolls back, the stored rows are those before the call.
C5_ErrorPropagation ==
    /\ []C5_StateInv
    /\ [][(Done /\ result.status = "err") => db' = db0]_vars

C5_Witness ==
    /\ Done /\ result.status = "err"
    /\ deletes = 1
    /\ log[Len(log)] = Call("delete", TargetModel, id, FALSE)
    /\ db # db0

C7_RepeatedExecuteNotFound ==
    /\ \A f \in gone : ~Exists(db, f.model, f.id)
    /\ (op = "execute" /\ (args.record_finder \in gone \/ ~FinderMatches(db0))) =>
          /\ ~FinderMatches(db)
          /\ NoDeleteIssued
          /\ db = db0
          /\ Len(log) <= 1
          /\ Done =>
              /\ Len(log) = 1
              /\ result = Err(IF log[1].ok THEN NotFound ELSE QueryError)

C7_Witness ==
    /\ Done /\ op = "execute"
    /\ args.record_finder \in gone
    /\ result = Err(NotFound)
    /\ db = db0

\* C8: a successful call removes the row of the target model with the
\* located key, with its scalar list rows, and changes no other row; its
\* delete statements are all for that key and for tables of that model; in
\* execute the row had no dependent row and is the finder's; in
\* execute_nested with no finder and exactly one connected child the row is
\* that child.
C8_Frame ==
    (Done /\ result.status = "ok") =>
        /\ Exists(db0, TargetModel, id)
        /\ db.rows = [db0.rows EXCEPT ![TargetModel][id] = 0]
        /\ db.tags = IF ListTables(TargetModel) = << >> THEN db0.tags
                     ELSE db0.tags \ {id}
        /\ \A i \in 1..Len(log) : log[i].call = "delete" =>
              /\ log[i].id = id
              /\ log[i].target \in {TargetModel} \cup Range(ListTables(TargetModel))
        /\ op = "execute" =>
              /\ args.record_finder = [model |-> TargetModel, id |-> id]
              /\ ~HasDependents(db0, TargetModel, id)
        /\ (op = "execute_nested" /\ ~FinderGiven
              /\ Cardinality(Connected(db0, args.relation_field, args.parent_id)) = 1) =>
              Connected(db0, args.relation_field, args.parent_id) = {id}

C8_Witness ==
    /\ Done /\ result.status = "ok"
    /\ op = "execute_nested" /\ ~FinderGiven
    /\ Connected(db0, args.relation_field, args.parent_id) = {id}
    /\ Present(db, TargetModel) # {}
    /\ ~Exists(db, TargetModel, id)

C10_PrecheckBeforeLookup ==
    op = "execute_nested" =>
        /\ \A i \in 1..Len(log) :
              /\ log[i].call = "find_id" => (FinderGiven /\ i = 1)
              /\ log[i].call = "find_id_by_parent" =>
                    IF FinderGiven
                    THEN i = 2 /\ log[1].call = "find_id" /\ log[1].ok
                    ELSE i = 1
        /\ Len(log) >= 1 =>
              log[1].call = IF FinderGiven THEN "find_id" ELSE "find_id_by_parent"
        /\ (Done /\ FinderGiven /\ ~FinderMatches(db0)) =>
              /\ Kind # "RecordsNotConnected"
              /\ Kind \in {"NotFound", "QueryError"}

C10_Witness ==
    /\ Done /\ op = "execute_nested"
    /\ FinderGiven /\ ~FinderMatches(db0)
    /\ Connected(db0, args.relation_field, args.parent_id) # {}
    /\ Kind = "NotFound"
    /\ Len(log) = 1

\* The reads of the log, in order.
ReadEntries == SelectSeq(log, LAMBDA e : e.call # "delete")

\* The probe reads of check_relation_violations for the running call's key.
ProbeReads ==
    [i \in 1..Len(RequiredRelations(TargetModel)) |->
        Call("select_ids", RequiredRelations(TargetModel)[i], id, TRUE)]

\* The reads of a call that gets as far as its delete statements, in the
\* order of the function's body.
ExpectedReads ==
    IF op = "execute"
    THEN << Call("find_record", args.record_finder.model, args.record_finder.id, TRUE) >>
         \o ProbeReads
    ELSE (IF FinderGiven
          THEN << Call("find_id", args.record_finder.model, args.record_finder.id, TRUE) >>
          ELSE << >>)
         \o << Call("find_id_by_parent", args.relation_field.relation, args.parent_id, TRUE),
               Call("select_ids", "ensure_connected", id, TRUE) >>
         \o ProbeReads

SameCall(a, b) == a.call = b.call /\ a.target = b.target /\ a.id = b.id

\* The i-th transaction call of the log returned, and the step it belongs to
\* succeeded on what it returned.
Succeeded(i) ==
    /\ log[i].ok
    /\ CASE log[i].call \in {"find_record", "find_id"} -> FinderMatches(db0)
         [] log[i].call = "find_id_by_parent" -> find.status = "ok"
         [] log[i].call = "select_ids" /\ log[i].target = "ensure_connected" ->
               ensure_connected_check(args.actions, args.relation_field,
                                      ids # {}).status = "ok"
         [] log[i].call = "select_ids" -> Dependents(db0, log[i].target, log[i].id) = {}
         [] OTHER -> TRUE

\* C11: the transaction calls of a call are issued in the order of the
\* function's body: locator read(s), in execute_nested the connectivity
\* read, one probe per required relation, then the delete statements; every
\* call but the last was issued after the one before it returned and its
\* step succeeded; the reads all precede the first delete statement, a
\* delete statement is issued only after all of them, and no read follows a
\* delete statement.
C11_SequentialOrder ==
    op # "none" =>
        LET reads == ReadEntries
            expected == ExpectedReads
        IN  /\ log = reads \o DeleteEntries
            /\ Len(reads) <= Len(expected)
            /\ \A i \in 1..Len(reads) : SameCall(reads[i], expected[i])
            /\ Len(reads) < Len(log) => Len(reads) = Len(expected)
            /\ \A i \in 1..(Len(log) - 1) : Succeeded(i)
            /\ NoReadAfterDelete

C11_Witness ==
    /\ Done /\ op = "execute_nested" /\ FinderGiven
    /\ result.status = "ok"
    /\ Len(log) = 7
    /\ log = ExpectedReads \o DeleteEntries
    /\ Len(DeleteEntries) = 2

\* The parent-scoped lookup of the running execute_nested returned an error.
LookupFailed == op = "execute_nested" /\ find.status = "err"

\* C12: when the parent-scoped lookup of execute_nested returns
\* RecordsNotConnected without a parent locator, the call returns
\* RecordsNotConnected whose parent locator is (relation field's model,
\* parent_id) and whose relation name, parent name, child name and child
\* locator are those the lookup produced; an error of any other kind from
\* the lookup is returned as it came; in both cases no further transaction
\* call is issued.
C12_Enrichment ==
    LookupFailed =>
        /\ Done
        /\ result.status = "err"
        /\ log[Len(log)].call = "find_id_by_parent"
        /\ (find.error.kind = "RecordsNotConnected"
              /\ find.error.parent_where = NoWhere) =>
              /\ Kind = "RecordsNotConnected"
              /\ result.error.parent_where =
                     ForId(args.relation_field.model, args.parent_id)
              /\ result.error.relation_name = find.error.relation_name
              /\ result.error.parent_name = find.error.parent_name
              /\ result.error.child_name = find.error.child_name
              /\ result.error.child_where = find.error.child_where
        /\ find.error.kind # "RecordsNotConnected" => result.error = find.error

C12_Witness ==
    /\ Done /\ LookupFailed
    /\ find.error.kind = "RecordsNotConnected"
    /\ find.error.parent_where = NoWhere
    /\ find.error.child_where # NoWhere
    /\ find.error.parent_name = args.relation_field.related_model
    /\ result.error = [find.error EXCEPT
                          !.parent_where = ForId("Post", args.parent_id)]

\* The last transaction call of the running call was the connectivity read,
\* and it returned.
EndedInConnectivityStep ==
    /\ Done /\ op = "execute_nested"
    /\ log[Len(log)] = Call("select_ids", "ensure_connected", id, TRUE)

\* C13: every RecordsNotConnected the parent-scoped lookup returns leaves
\* execute_nested with the parent locator (relation field's model,
\* parent_id), whatever parent locator it carried, and is otherwise the
\* lookup's error; a call that ends in the connectivity step returns what
\* the check function returned for the read's rows, field by field, so a
\* RecordsNotConnected of the check function keeps the parent locator the
\* check gave it.
C13_OverwriteLookupOnly ==
    /\ (LookupFailed /\ find.error.kind = "RecordsNotConnected") =>
          /\ Done
          /\ result = Err([find.error EXCEPT !.parent_where =
                              ForId(args.relation_field.model, args.parent_id)])
    /\ EndedInConnectivityStep =>
          /\ result = ensure_connected_check(args.actions, args.relation_field, ids # {})
          /\ result.status = "err"
          /\ result.error.parent_where = NoWhere

C13_Witness ==
    /\ Done /\ LookupFailed
    /\ find.error.kind = "RecordsNotConnected"
    /\ find.error.parent_where # NoWhere
    /\ find.error.parent_where # ForId("Post", args.parent_id)
    /\ result.error.parent_where = ForId("Post", args.parent_id)

\* The connectivity reads of the log.
ConnectivityReads ==
    SelectSeq(log, LAMBDA e : e.call = "select_ids" /\ e.target = "ensure_connected")

\* What the check function of the call's NestedActions returns for the rows
\* the connectivity read returned.
Checked == ensure_connected_check(args.actions, args.relation_field, ids # {})

PastConnectivityStep == pc \in {"check_relation_violations", "delete"}

\* C14: execute_nested issues at most one connectivity read, for the
\* resolved child key, and none before the lookup succeeded; once the read
\* returned, the call goes on to the violation check exactly when the check
\* function, given "the read returned a row", returns success, and otherwise
\* ends at once with the check function's error; the boolean alone decides
\* nothing.
C14_ConnectionVerifier ==
    op = "execute_nested" =>
        /\ Len(ConnectivityReads) <= 1
        /\ PastConnectivityStep =>
              /\ Len(ConnectivityReads) = 1
              /\ ConnectivityReads[1].ok
              /\ Checked.status = "ok"
        /\ ConnectivityReads # << >> =>
              /\ find.status = "ok"
              /\ ConnectivityReads[1].id = find.record.id
              /\ IF ~ConnectivityReads[1].ok
                 THEN /\ Done
                      /\ result = Err(QueryError)
                      /\ log[Len(log)] = ConnectivityReads[1]
                 ELSE IF Checked.status = "ok"
                 THEN \/ PastConnectivityStep
                      \/ Done /\ log[Len(log)] # ConnectivityReads[1]
                 ELSE /\ Done
                      /\ result = Checked
                      /\ log[Len(log)] = ConnectivityReads[1]

C14_Witness ==
    /\ Done /\ op = "execute_nested"
    /\ result.status = "ok"
    /\ Len(ConnectivityReads) = 1
    /\ ids = {}
    /\ Checked.status = "ok"

\* The i-th transaction call of the log is a locator read that returned a key.
ResolvedKey(i) ==
    /\ log[i].ok
    /\ CASE log[i].call \in {"find_record", "find_id"} -> FinderMatches(db0)
         [] log[i].call = "find_id_by_parent" -> find.status = "ok"
         [] OTHER -> FALSE

KeyLookups == {i \in 1..Len(log) : ResolvedKey(i)}

\* The key of the running call is the one its locator bound (execute: the
\* located record's, execute_nested: the parent-scoped lookup's), and every
\* connectivity read, probe and delete statement is for that key.
OneKeyUsed ==
    /\ (op = "execute" /\ id # 0) =>
          /\ record = RowOf(db0, args.record_finder)
          /\ id = record.id
    /\ (op = "execute_nested" /\ id # 0) =>
          /\ find.status = "ok"
          /\ id = find.record.id
    /\ \A i \in 1..Len(log) : log[i].call \in {"select_ids", "delete"} =>
          /\ id # 0
          /\ log[i].id = id

\* C15 as stated: one key is bound and used by every later step, and no
\* call resolves a key by more than one locator read.
C15_KeyLookedUpOnce ==
    /\ OneKeyUsed
    /\ Cardinality(KeyLookups) <= 1

\* C15, amended: one key is bound and used by every later step (execute:
\* the located record's key; execute_nested: the key the parent-scoped
\* lookup returned, also when it is not the finder's row); execute and
\* execute_nested without a finder resolve a key by one locator read;
\* execute_nested with a finder resolves a key twice, by the find_id
\* pre-check and then by the parent-scoped lookup, and the pre-check's key
\* is bound to nothing.
C15_OneKeyUsed ==
    /\ OneKeyUsed
    /\ Cardinality(KeyLookups) <= IF op = "execute_nested" /\ FinderGiven THEN 2 ELSE 1
    /\ Cardinality(KeyLookups) = 2 =>
          /\ log[1].call = "find_id"
          /\ log[2].call = "find_id_by_parent"
          /\ id = find.record.id

C15_Witness ==
    /\ Done /\ op = "execute_nested" /\ FinderGiven
    /\ result.status = "ok"
    /\ Cardinality(KeyLookups) = 2
    /\ id # args.record_finder.id
    /\ id # args.parent_id
    /\ \A i \in 1..Len(DeleteEntries) : DeleteEntries[i].id = find.record.id

\* The stored rows after the first n of the statements ran on d.
RECURSIVE ApplyDeletes(_, _, _)
ApplyDeletes(d, stmts, n) ==
    IF n = 0 THEN d ELSE ApplyDelete(ApplyDeletes(d, stmts, n - 1), stmts[n])

\* C16: the delete statements a call executes are those delete_many
\* produced for its key, taken from the front in the produced order, one
\* per step; a statement that fails is the last one issued, the call
\* returns its failure at once, and the stored rows show exactly the
\* statements before it; a call that succeeds has executed all of them.
C16_DeleteOrder ==
    op # "none" =>
        LET issued == DeleteEntries
            stmts == Statements
        IN  /\ Len(issued) <= Len(stmts)
            /\ \A i \in 1..Len(issued) :
                  /\ issued[i].target = stmts[i].table
                  /\ issued[i].id = stmts[i].id
                  /\ issued[i].ok = (i <= deletes)
                  /\ ~issued[i].ok =>
                        /\ i = Len(issued)
                        /\ Done
                        /\ result = Err(QueryError)
                        /\ log[Len(log)] = issued[i]
            /\ deletes <= Len(issued)
            /\ Len(issued) <= deletes + 1
            /\ db = ApplyDeletes(db0, stmts, deletes)
            /\ (Done /\ result.status = "ok") => deletes = Len(stmts)

C16_Witness ==
    /\ Done /\ op = "execute"
    /\ result = Err(QueryError)
    /\ Len(Statements) = 2
    /\ DeleteEntries = << Call("delete", "Comment_tags", id, TRUE),
                          Call("delete", "Comment", id, FALSE) >>
    /\ id \in db0.tags /\ id \notin db.tags
    /\ Exists(db, "Comment", id)

\* What the step of the last transaction call produced, when that call
\* returned and the step failed on what it returned.
StepError ==
    LET last == log[Len(log)]
    IN  CASE last.call \in {"find_record", "find_id"} -> NotFound
          [] last.call = "find_id_by_parent" -> find.error
          [] last.call = "select_ids" /\ last.target = "ensure_connected" -> Checked.error
          [] last.call = "select_ids" -> RelationViolation(last.target)
          [] OTHER -> NoError

\* C17: a transaction call that fails is the last call of the run and the
\* run returns that failure as it came, wherever it happened, the
\* parent-scoped lookup included; a call returns success only when none of
\* its transaction calls failed; an error a step produced is returned as
\* produced, except the parent locator of a RecordsNotConnected from the
\* parent-scoped lookup.
C17_FailuresPassThrough ==
    /\ \A i \in 1..Len(log) :
          ~log[i].ok => /\ i = Len(log)
                        /\ Done
                        /\ result = Err(QueryError)
    /\ (Done /\ result.status = "ok") => \A i \in 1..Len(log) : log[i].ok
    /\ (Done /\ result.status = "err" /\ log[Len(log)].ok) =>
          IF log[Len(log)].call = "find_id_by_parent"
                /\ find.error.kind = "RecordsNotConnected"
          THEN result.error = [StepError EXCEPT !.parent_where = result.error.parent_where]
          ELSE result.error = StepError

C17_Witness ==
    /\ Done /\ op = "execute_nested"
    /\ log[Len(log)] = Call("find_id_by_parent", args.relation_field.relation,
                            args.parent_id, FALSE)
    /\ find = Err(QueryError)
    /\ result = Err(QueryError)

\* The probe reads of the log, in order.
ProbeEntries ==
    SelectSeq(log, LAMBDA e : e.call = "select_ids" /\ e.target # "ensure_connected")

\* The required relations of the call's model through which a row
\* references the call's key, as positions in schema order.
Violated ==
    {i \in 1..Len(RequiredRelations(TargetModel)) :
        Dependents(db0, RequiredRelations(TargetModel)[i], id) # {}}

\* C18: the probes of a call are for the required relations of its model in
\* schema order, each at most once; a probe is issued only after every
\* earlier probe returned no row; the first probe that returns a row is the
\* last transaction call of the run and the call ends with RelationViolation
\* naming that probe's relation, so that with several violated relations
\* only the first is probed and named.
C18_FailFast ==
    op # "none" =>
        /\ Len(ProbeEntries) <= Len(RequiredRelations(TargetModel))
        /\ \A i \in 1..Len(ProbeEntries) :
              /\ ProbeEntries[i].target = RequiredRelations(TargetModel)[i]
              /\ ProbeEntries[i].id = id
              /\ \A j \in 1..(i - 1) : j \notin Violated
              /\ (ProbeEntries[i].ok /\ i \in Violated) =>
                    /\ i = Len(ProbeEntries)
                    /\ i = Min(Violated)
                    /\ Done
                    /\ result = Err(RelationViolation(RequiredRelations(TargetModel)[i]))
                    /\ log[Len(log)] = ProbeEntries[i]
        /\ (Done /\ Kind = "RelationViolation") =>
              /\ Violated # {}
              /\ Len(ProbeEntries) = Min(Violated)
              /\ result.error.relation_name = RequiredRelations(TargetModel)[Min(Violated)]
              /\ NoDeleteIssued

C18_Witness ==
    /\ Done /\ Kind = "RelationViolation"
    /\ Cardinality(Violated) = 2
    /\ Len(ProbeEntries) = 1
    /\ result.error.relation_name = "LikeToComment"

\* The most transaction calls the running call can issue: its locator
\* reads, in execute_nested the connectivity read, one probe per required
\* relation and the delete statements.
MaxCalls ==
    (IF op = "execute_nested" /\ FinderGiven THEN 2 ELSE 1)
    + (IF op = "execute_nested" THEN 1 ELSE 0)
    + Len(RequiredRelations(TargetModel))
    + Len(Statements)

\* No transaction call is issued twice by one call.
NoRetry ==
    \A i, j \in 1..Len(log) : (i # j) => ~SameCall(log[i], log[j])

Running == op # "none" /\ ~Done

\* What C19 says of every state.
C19_StateInv ==
    /\ Running => result = NoResult
    /\ Done => result.status \in {"ok", "err"}
    /\ (Done /\ result.status = "ok") => result.error = NoError
    /\ (Done /\ result.status = "err") => result.error # NoError
    /\ op # "none" =>
          /\ Len(log) <= MaxCalls
          /\ NoRetry

\* C19: when every transaction call returns, a call that was started
\* returns, with success or with an error and never both; until then it
\* has no result; no transaction call is issued twice, and a call issues at
\* most its locator reads, one connectivity read, one probe per required
\* relation and the delete statements of its key.
C19_Terminates ==
    /\ []C19_StateInv
    /\ (op # "none") ~> Done

C19_Witness ==
    /\ Done /\ op = "execute_nested"
    /\ result = Ok(NoRecord)
    /\ Len(log) = MaxCalls
    /\ MaxCalls = 7

\* The probes and delete statements of the running execute_nested are for
\* the related model and the child key the lookup returned, the rows of
\* every other model are left as they were, and the relation field's own
\* model comes back to the caller only as the parent locator of a
\* RecordsNotConnected from the parent-scoped lookup.
ChildModelOnly ==
    /\ \A m \in Models \ {args.relation_field.related_model} :
          db.rows[m] = db0.rows[m]
    /\ \A i \in 1..Len(ProbeEntries) :
          /\ ProbeEntries[i].target \in
                 Range(RequiredRelations(args.relation_field.related_model))
          /\ ProbeEntries[i].id = find.record.id
    /\ \A i \in 1..Len(DeleteEntries) :
          /\ DeleteEntries[i].target \in
                 {args.relation_field.related_model}
                 \cup Range(ListTables(args.relation_field.related_model))
          /\ DeleteEntries[i].id = find.record.id
    /\ (Done /\ result.error.parent_where # NoWhere) =>
          /\ LookupFailed
          /\ Kind = "RecordsNotConnected"
          /\ result.error.parent_where =
                 ForId(args.relation_field.model, args.parent_id)

\* C20 as stated: execute_nested deletes neither the parent row nor any
\* other row of the relation field's own model, whatever the relation
\* field; its probes and delete statements are for the related model and
\* the child key.
C20_ParentModelUntouched ==
    op = "execute_nested" =>
        /\ db.rows[args.relation_field.model] = db0.rows[args.relation_field.model]
        /\ Exists(db0, args.relation_field.model, args.parent_id) =>
              Exists(db, args.relation_field.model, args.parent_id)
        /\ ChildModelOnly

\* C20, amended: the probes and delete statements of execute_nested are for
\* the relation field's related model and the resolved child key only, and
\* rows of every other model are left as they were; when the related model
\* is not the relation field's own model, neither the parent row nor any
\* row of the parent's model is deleted; for a self-relation the deleted row
\* is a row of the parent's model (the parent row itself only if the lookup
\* returned the parent's key); the relation field's own model is otherwise
\* used only for the parent locator of the enriched error.
C20_ChildModelOnly ==
    op = "execute_nested" =>
        /\ ChildModelOnly
        /\ args.relation_field.model # args.relation_field.related_model =>
              /\ db.rows[args.relation_field.model] = db0.rows[args.relation_field.model]
              /\ Exists(db0, args.relation_field.model, args.parent_id) =>
                    Exists(db, args.relation_field.model, args.parent_id)
        /\ (Exists(db0, args.relation_field.model, args.parent_id)
              /\ ~Exists(db, args.relation_field.model, args.parent_id)) =>
              /\ args.relation_field.model = args.relation_field.related_model
              /\ find.status = "ok"
              /\ find.record.id = args.parent_id

C20_Witness ==
    /\ Done /\ op = "execute_nested"
    /\ result.status = "ok"
    /\ id = args.parent_id
    /\ Exists(db, "Post", args.parent_id)
    /\ Exists(db0, "Comment", id) /\ ~Exists(db, "Comment", id)
    /\ db.rows["Post"] = db0.rows["Post"]

====
